---- MODULE Spec2Model ----
(***************************************************************************)
(* Alpine Trail Guardian: the RiskAssessment component of                  *)
(* frontend/src/App.js, the AIAssistant chat with the RAGService client,   *)
(* and the RouteTracker.  RiskAssessment keeps four risk factors, and an   *)
(* effect recomputes the overall risk (weighted score, tier, colour,       *)
(* percentage) and the recommendation from them.                           *)
(*                                                                         *)
(* JavaScript numbers are IEEE-754 binary64 values.  The weighted score is *)
(* computed here with the same roundings the engine performs: every        *)
(* product, sum and quotient is rounded to a 53-bit significand, ties to   *)
(* even.  Significands are kept as little-endian sequences of 15-bit limbs *)
(* so that no intermediate value leaves the range of the model checker's   *)
(* integers.                                                               *)
(***************************************************************************)
EXTENDS Integers, Sequences, FiniteSets, TLC

\* RiskAssessment (App.js)
VARIABLES riskFactors, overallRisk, recommendation, selectedRoute,
          effectPending, nUpdates

\* AIAssistant (components/AIAssistant.js and its Apertus variant), the
\* RAGService calls in flight and the session storage of the page
VARIABLES variant, messages, inputMessage, isTyping, selectedScenario,
          welcomePending, requests, sessionStorage, returned

\* RouteTracker (unnamed/part_001): its state, the interval set by its
\* effect with the values its callback closes over, and the number of
\* interval callbacks run so far
VARIABLES trackerSelectedRoute, trackingStatus, currentPosition,
          routeProgress, elapsedTime, weatherAlerts, interval, nTicks

\* EmergencyPanel (components/EmergencyPanel.js): its state (callingNumber
\* is null or holds the number as its value), the URLs passed to window.open
\* so far, and the number of setTimeout callbacks still to run
VARIABLES isOpen, callingNumber, opened, timeouts

riskVars == <<riskFactors, overallRisk, recommendation, selectedRoute,
              effectPending, nUpdates>>

chatVars == <<variant, messages, inputMessage, isTyping, selectedScenario,
              welcomePending, requests, sessionStorage, returned>>

trackerVars == <<trackerSelectedRoute, trackingStatus, currentPosition,
                 routeProgress, elapsedTime, weatherAlerts, interval, nTicks>>

panelVars == <<isOpen, callingNumber, opened, timeouts>>

vars == <<riskVars, chatVars, trackerVars, panelVars>>

(***************************************************************************)
(* Wide natural numbers: sequences of limbs of LimbBits bits, least        *)
(* significant limb first.  The arithmetic is written as functions, so     *)
(* that every argument is a value when the body is evaluated.              *)
(***************************************************************************)
LimbBits == 15
Base == 2 ^ LimbBits
Precision == 53

Wide == Seq(Int)

\* quotient and remainder of a division by a small number
Divided == [q : Wide, r : Nat]

\* a right shift: the remaining bits, and whether a non-zero bit was dropped
Shifted == [q : Wide, sticky : BOOLEAN]

WZero == <<0, 0, 0, 0, 0>>

\* limbs brought back into 0..Base-1, the carry c added at the low end
WCarry[w \in Wide, c \in Int] ==
  IF w = <<>> THEN <<>>
  ELSE <<(Head(w) + c) % Base>> \o WCarry[Tail(w), (Head(w) + c) \div Base]

WFromInt[n \in Nat] == WCarry[<<n, 0, 0, 0, 0>>, 0]

WOne == WFromInt[1]

WMulSmall[w \in Wide, k \in Nat] == WCarry[[i \in 1..Len(w) |-> w[i] * k], 0]

WAdd[a \in Wide, b \in Wide] == WCarry[[i \in 1..Len(a) |-> a[i] + b[i]], 0]

WSub[a \in Wide, b \in Wide] == WCarry[[i \in 1..Len(a) |-> a[i] - b[i]], 0]

\* long division of the limbs i, i-1, .. 1 of w by d, remainder r carried in,
\* quotient limbs above i in acc
WDivFrom[w \in Wide, i \in Nat, r \in Nat, d \in Nat, acc \in Wide] ==
  IF i = 0 THEN [q |-> acc, r |-> r]
  ELSE WDivFrom[w, i - 1, (r * Base + w[i]) % d, d,
                <<(r * Base + w[i]) \div d>> \o acc]

WDivSmall[w \in Wide, d \in Nat] == WDivFrom[w, Len(w), 0, d, <<>>]

BitLen[n \in Nat] == IF n = 0 THEN 0 ELSE 1 + BitLen[n \div 2]

WTop[w \in Wide, i \in Nat] ==
  IF i = 0 THEN 0 ELSE IF w[i] # 0 THEN i ELSE WTop[w, i - 1]

WBitLenAt[w \in Wide, h \in Nat] ==
  IF h = 0 THEN 0 ELSE LimbBits * (h - 1) + BitLen[w[h]]

WBitLen[w \in Wide] == WBitLenAt[w, WTop[w, Len(w)]]

WCmpFrom[a \in Wide, b \in Wide, i \in Nat] ==
  IF i = 0 THEN 0
  ELSE IF a[i] > b[i] THEN 1
  ELSE IF a[i] < b[i] THEN -1
  ELSE WCmpFrom[a, b, i - 1]

WCmp[a \in Wide, b \in Wide] == WCmpFrom[a, b, Len(a)]

WShl[w \in Wide, s \in Nat] ==
  IF s = 0 THEN w
  ELSE IF s >= LimbBits
  THEN WShl[WMulSmall[w, 2 ^ (LimbBits - 1)], s - (LimbBits - 1)]
  ELSE WMulSmall[w, 2 ^ s]

\* w shifted right by s bits; sticky tells whether a non-zero bit was dropped
\* (or st was set already)
WShrStep[d \in Divided, st \in BOOLEAN] ==
  [q |-> d.q, sticky |-> st \/ d.r # 0]

WShr[w \in Wide, s \in Nat, st \in BOOLEAN] ==
  IF s = 0 THEN [q |-> w, sticky |-> st]
  ELSE IF s > LimbBits
  THEN WShr[WDivSmall[w, Base].q, s - LimbBits,
            st \/ WDivSmall[w, Base].r # 0]
  ELSE WShrStep[WDivSmall[w, 2 ^ s], st]

WToInt[w \in Wide] == w[1] + Base * w[2]

Abs(n) == IF n < 0 THEN -n ELSE n

(***************************************************************************)
(* IEEE-754 binary64 values in the normal range: sign, 53-bit significand  *)
(* m with 2^52 <= m < 2^53, exponent e; the value is (-1)^neg * m * 2^e.   *)
(* Zero has the all-zero significand.  Every operation computes the exact  *)
(* result and rounds it once to nearest, ties to even.                     *)
(***************************************************************************)
Floats == [neg : BOOLEAN, m : Wide, e : Int]

FZero == [neg |-> FALSE, m |-> WZero, e |-> 0]

IsZero(x) == x.m = WZero

\* r * 2^e with r of 53 bits, or of 54 bits after a carry out of the top
FRenorm[neg \in BOOLEAN, e \in Int, r \in Wide] ==
  IF WBitLen[r] > Precision
  THEN [neg |-> neg, m |-> WShr[r, 1, FALSE].q, e |-> e + 1]
  ELSE [neg |-> neg, m |-> r, e |-> e]

\* a.q holds the 53 leading bits and the guard bit below them
FRoundCut[neg \in BOOLEAN, e \in Int, a \in Shifted] ==
  IF (a.q[1] % 2 = 1) /\ (a.sticky \/ (a.q[1] \div 2) % 2 = 1)
  THEN FRenorm[neg, e, WAdd[WShr[a.q, 1, FALSE].q, WOne]]
  ELSE [neg |-> neg, m |-> WShr[a.q, 1, FALSE].q, e |-> e]

FRoundLen[neg \in BOOLEAN, w \in Wide, e \in Int, st0 \in BOOLEAN, L \in Nat] ==
  IF L = 0 THEN FZero
  ELSE IF L <= Precision
  THEN [neg |-> neg, m |-> WShl[w, Precision - L], e |-> e - (Precision - L)]
  ELSE FRoundCut[neg, e + (L - Precision), WShr[w, L - Precision - 1, st0]]

\* w * 2^e (plus a non-zero remainder below w when st0) rounded to nearest,
\* ties to even
FRound[neg \in BOOLEAN, w \in Wide, e \in Int, st0 \in BOOLEAN] ==
  FRoundLen[neg, w, e, st0, WBitLen[w]]

\* the Number of an integer
FromInt[n \in Int] ==
  IF n = 0 THEN FZero ELSE FRound[n < 0, WFromInt[Abs(n)], 0, FALSE]

\* x * k for an integer k
FMulInt[x \in Floats, k \in Int] ==
  IF k = 0 \/ IsZero(x) THEN FZero
  ELSE FRound[x.neg # (k < 0), WMulSmall[x.m, Abs(k)], x.e, FALSE]

FDivRound[neg \in BOOLEAN, e \in Int, qr \in Divided] ==
  FRound[neg, qr.q, e, qr.r # 0]

\* x / d for an integer 0 < d < 2^13
FDivInt[x \in Floats, d \in Nat] ==
  IF IsZero(x) THEN FZero
  ELSE FDivRound[x.neg, x.e - LimbBits, WDivSmall[WShl[x.m, LimbBits], d]]

\* a decimal literal num/den, e.g. 0.35 = 35/100: the nearest binary64 value
Decimal[num \in Int, den \in Nat] == FDivInt[FromInt[num], den]

\* two significands scaled to the common exponent e
AlignedPair == [a : Wide, b : Wide, e : Int]

\* the largest exponent difference for which both significands, scaled to
\* the smaller exponent, fit the limbs
MaxAlign == Len(WZero) * LimbBits - Precision - 2

\* the significands of hi and lo (hi.e >= lo.e) scaled to the exponent of lo
AlignedNear[hi \in Floats, lo \in Floats] ==
  [a |-> WShl[hi.m, hi.e - lo.e], b |-> lo.m, e |-> lo.e]

\* the dropped bits of a shifted significand kept as one odd low bit
WJam[d \in Shifted] ==
  IF d.sticky /\ d.q[1] % 2 = 0 THEN WAdd[d.q, WOne] ELSE d.q

\* exponents far apart: hi gets three extra low bits, lo is shifted down to
\* them with its dropped bits jammed into the lowest one
AlignedFar[hi \in Floats, lo \in Floats] ==
  [a |-> WShl[hi.m, 3], b |-> WJam[WShr[lo.m, hi.e - lo.e - 3, FALSE]],
   e |-> hi.e - 3]

FAddAligned[xneg \in BOOLEAN, yneg \in BOOLEAN, al \in AlignedPair, c \in Int] ==
  IF xneg = yneg THEN FRound[xneg, WAdd[al.a, al.b], al.e, FALSE]
  ELSE IF c = 0 THEN FZero
  ELSE IF c > 0 THEN FRound[xneg, WSub[al.a, al.b], al.e, FALSE]
  ELSE FRound[yneg, WSub[al.b, al.a], al.e, FALSE]

FAddCmp[xneg \in BOOLEAN, yneg \in BOOLEAN, al \in AlignedPair] ==
  FAddAligned[xneg, yneg, al, WCmp[al.a, al.b]]

\* hi + lo for non-zero hi, lo with hi.e >= lo.e
FAddOrdered[hi \in Floats, lo \in Floats] ==
  IF hi.e - lo.e <= MaxAlign
  THEN FAddCmp[hi.neg, lo.neg, AlignedNear[hi, lo]]
  ELSE FAddCmp[hi.neg, lo.neg, AlignedFar[hi, lo]]

FAdd[x \in Floats, y \in Floats] ==
  IF IsZero(x) THEN y
  ELSE IF IsZero(y) THEN x
  ELSE IF x.e >= y.e THEN FAddOrdered[x, y]
  ELSE FAddOrdered[y, x]

Sign(x) == IF IsZero(x) THEN 0 ELSE IF x.neg THEN -1 ELSE 1

\* -1, 0, 1 as x < y, x = y, x > y
FCmp[x \in Floats, y \in Floats] ==
  IF Sign(x) # Sign(y) THEN (IF Sign(x) < Sign(y) THEN -1 ELSE 1)
  ELSE IF Sign(x) = 0 THEN 0
  ELSE IF x.e # y.e THEN (IF x.e > y.e THEN Sign(x) ELSE -Sign(x))
  ELSE Sign(x) * WCmp[x.m, y.m]

FLeq[x \in Floats, y \in Floats] == FCmp[x, y] <= 0

\* twice = floor(2 * |x|); sticky tells whether 2 * |x| has a fraction
MathRoundHalves[neg \in BOOLEAN, twice \in Nat, sticky \in BOOLEAN] ==
  IF neg
  THEN -((twice \div 2) + (IF twice % 2 = 1 /\ sticky THEN 1 ELSE 0))
  ELSE (twice \div 2) + (twice % 2)

MathRoundShifted[neg \in BOOLEAN, a \in Shifted] ==
  MathRoundHalves[neg, WToInt[a.q], a.sticky]

\* Math.round: the integer nearest to x, ties towards +Infinity
MathRound[x \in Floats] ==
  IF IsZero(x) THEN 0
  ELSE IF x.e >= 0 THEN MathRoundHalves[x.neg, WToInt[WShl[x.m, x.e + 1]], FALSE]
  ELSE MathRoundShifted[x.neg, WShr[x.m, (-x.e) - 1, FALSE]]

\* a.q = floor(|x|); a.sticky tells whether |x| has a fraction
MathFloorShifted[neg \in BOOLEAN, a \in Shifted] ==
  IF neg THEN -(WToInt[a.q] + (IF a.sticky THEN 1 ELSE 0)) ELSE WToInt[a.q]

\* Math.floor: the largest integer not above x
MathFloor[x \in Floats] ==
  IF IsZero(x) THEN 0
  ELSE IF x.e >= 0 THEN MathFloorShifted[x.neg, [q |-> WShl[x.m, x.e], sticky |-> FALSE]]
  ELSE MathFloorShifted[x.neg, WShr[x.m, -x.e, FALSE]]

(***************************************************************************)
(* The RiskAssessment component                                            *)
(***************************************************************************)
ScoreScale == 10

MaxUpdates == 2

Categories == {"weather", "avalanche", "terrain", "group"}

\* useState({}): an object without properties
EmptyObject == [empty |-> TRUE]

DefaultRiskFactors ==
  [weather |-> [temperature |-> -5, windSpeed |-> 35, visibility |-> 150,
                forecast |-> "deteriorating", precipitation |-> "snow",
                score |-> 6],
   avalanche |-> [level |-> 3, trend |-> "increasing", newSnow |-> 25,
                  windLoading |-> "moderate", score |-> 7],
   terrain |-> [elevation |-> 2800, slope |-> 38, aspect |-> "north",
                difficulty |-> "intermediate", score |-> 5],
   group |-> [experience |-> "intermediate", groupSize |-> 3,
              equipment |-> "complete", fitness |-> "good", score |-> 4]]

routes ==
  <<[id |-> "matterhorn-base", name |-> "Matterhorn Base Camp",
     location |-> "Zermatt", elevation |-> 2800,
     difficulty |-> "Intermediate", duration |-> "6-8 hours"],
    [id |-> "jungfraujoch-trail", name |-> "Jungfraujoch Trail",
     location |-> "Interlaken", elevation |-> 3454,
     difficulty |-> "Advanced", duration |-> "4-6 hours"],
    [id |-> "verbier-offpiste", name |-> "Verbier Off-Piste",
     location |-> "Verbier", elevation |-> 2700,
     difficulty |-> "Expert", duration |-> "3-5 hours"]>>

RouteIds == {routes[i].id : i \in 1..Len(routes)}

\* weights that add up to more than one
weightsOver ==
  [weather |-> Decimal[3, 10], avalanche |-> Decimal[45, 100],
   terrain |-> Decimal[2, 10], group |-> Decimal[15, 100]]

weights ==
  [weather |-> Decimal[3, 10], avalanche |-> Decimal[35, 100],
   terrain |-> Decimal[2, 10], group |-> Decimal[15, 100]]

\* the avalanche term taken from the danger level instead of the sub-score
weightedScoreReadsLevel(rf) ==
  FAdd[FAdd[FAdd[FMulInt[weights.weather, rf.weather.score],
                 FMulInt[weights.avalanche, rf.avalanche.level]],
            FMulInt[weights.terrain, rf.terrain.score]],
       FMulInt[weights.group, rf.group.score]]

\* the group term subtracted instead of added
weightedScoreGroupLowers(rf) ==
  FAdd[FAdd[FAdd[FMulInt[weights.weather, rf.weather.score],
                 FMulInt[weights.avalanche, rf.avalanche.score]],
            FMulInt[weights.terrain, rf.terrain.score]],
       FMulInt[weights.group, -rf.group.score]]

weightedScore(rf) ==
  FAdd[FAdd[FAdd[FMulInt[weights.weather, rf.weather.score],
                 FMulInt[weights.avalanche, rf.avalanche.score]],
            FMulInt[weights.terrain, rf.terrain.score]],
       FMulInt[weights.group, rf.group.score]]

\* the numeric literals of the conditions
Three == FromInt[3]

Five == FromInt[5]

Seven == FromInt[7]

\* riskLevel, color and recommendation as assigned in each branch
lowBranch ==
  [riskLevel |-> "LOW", color |-> "#10b981",
   recommendation |->
     [action |-> "GO",
      message |-> "Risk profile supports resilient activity execution",
      details |-> <<"Weather conditions are stable and favorable",
                    "Avalanche risk is within acceptable parameters",
                    "Route complexity matches group capabilities",
                    "Proceed with standard resilience measures">>,
      icon |-> "CheckCircle"]]

moderateBranch ==
  [riskLevel |-> "MODERATE", color |-> "#f59e0b",
   recommendation |->
     [action |-> "CAUTION",
      message |-> "Enhanced resilience measures required for safe execution",
      details |-> <<"Implement continuous monitoring of changing conditions",
                    "Verify latest hazard bulletins and warnings",
                    "Deploy comprehensive risk mitigation equipment",
                    "Activate contingency planning and alternative routes">>,
      icon |-> "AlertTriangle"]]

highBranch ==
  [riskLevel |-> "HIGH", color |-> "#f97316",
   recommendation |->
     [action |-> "RECONSIDER",
      message |-> "Risk exposure exceeds resilience capacity thresholds",
      details |-> <<"Current hazard profile surpasses acceptable risk tolerance",
                    "Recommend postponement pending improved conditions",
                    "Professional risk management expertise required if proceeding",
                    "Deploy advanced emergency response infrastructure">>,
      icon |-> "AlertTriangle"]]

extremeBranch ==
  [riskLevel |-> "EXTREME", color |-> "#dc2626",
   recommendation |->
     [action |-> "CRITICAL RISK",
      message |-> "Hazard exposure incompatible with population safety",
      details |-> <<"Multiple catastrophic risk vectors converging",
                    "Environmental conditions pose extreme societal threat",
                    "Restrict access to secured, controlled environments only",
                    "Await substantial hazard mitigation before reconsidering">>,
      icon |-> "XCircle"]]

\* the chain with < in place of <= at each boundary
riskBranchStrict(score) ==
  IF FCmp[score, Three] < 0 THEN lowBranch
  ELSE IF FCmp[score, Five] < 0 THEN moderateBranch
  ELSE IF FCmp[score, Seven] < 0 THEN highBranch
  ELSE extremeBranch

\* the chain with the colour taken from the sub-score palette one band up
\* and the HIGH branch reusing the MODERATE recommendation
riskBranchMixed(score) ==
  IF FLeq[score, Three] THEN lowBranch
  ELSE IF FLeq[score, Five] THEN moderateBranch
  ELSE IF FLeq[score, Seven]
  THEN [highBranch EXCEPT !.color = "#dc2626",
                          !.recommendation = moderateBranch.recommendation]
  ELSE extremeBranch

\* the if / else-if chain on the weighted score: the first branch whose
\* condition holds
riskBranch(score) ==
  IF FLeq[score, Three] THEN lowBranch
  ELSE IF FLeq[score, Five] THEN moderateBranch
  ELSE IF FLeq[score, Seven] THEN highBranch
  ELSE extremeBranch

\* the percentage without the scaling to 100
percentageOfUnscaled(score) == MathRound[FDivInt[score, 10]]

\* Math.round((weightedScore / 10) * 100)
percentageOf(score) == MathRound[FMulInt[FDivInt[score, 10], 100]]

\* the values passed to setOverallRisk and setRecommendation for a weighted
\* score
riskResult[score \in Floats] ==
  [overallRisk |-> [score |-> score, level |-> riskBranch(score).riskLevel,
                    color |-> riskBranch(score).color,
                    percentage |-> percentageOf(score)],
   recommendation |-> riskBranch(score).recommendation]

\* the two state values calculateOverallRisk sets when it reads the factors rf
computeOverallRisk(rf) == riskResult[weightedScore(rf)]

WithScores(w, a, t, g) ==
  [DefaultRiskFactors EXCEPT !.weather.score = w, !.avalanche.score = a,
                             !.terrain.score = t, !.group.score = g]

ScoresOf(rf) ==
  <<rf.weather.score, rf.avalanche.score, rf.terrain.score, rf.group.score>>

OnScale(s) == \A i \in 1..4 : s[i] \in 0..ScoreScale

\* computeOverallRisk reads the four score fields only; its values for the
\* sub-scores on the scale are computed once and looked up afterwards
scaleTable ==
  [w \in 0..ScoreScale |-> [a \in 0..ScoreScale |->
     [t \in 0..ScoreScale |-> [g \in 0..ScoreScale |->
        computeOverallRisk(WithScores(w, a, t, g))]]]]

calculateOverallRisk(rf) ==
  IF OnScale(ScoresOf(rf))
  THEN scaleTable[rf.weather.score][rf.avalanche.score][rf.terrain.score][rf.group.score]
  ELSE computeOverallRisk(rf)

\* the values a caller passes for a field: any sub-score on the scale, and
\* for a descriptive field its seeded value or one other value
FieldValues(field) ==
  CASE field = "score" -> 0..ScoreScale
    [] field = "temperature" -> {-5, 3}
    [] field = "windSpeed" -> {35, 10}
    [] field = "visibility" -> {150, 5000}
    [] field = "forecast" -> {"deteriorating", "stable"}
    [] field = "precipitation" -> {"snow", "none"}
    [] field = "level" -> {3, 1}
    [] field = "trend" -> {"increasing", "stable"}
    [] field = "newSnow" -> {25, 0}
    [] field = "windLoading" -> {"moderate", "low"}
    [] field = "elevation" -> {2800, 1500}
    [] field = "slope" -> {38, 20}
    [] field = "aspect" -> {"north", "south"}
    [] field = "difficulty" -> {"intermediate", "easy"}
    [] field = "experience" -> {"intermediate", "expert"}
    [] field = "groupSize" -> {3, 8}
    [] field = "equipment" -> {"complete", "partial"}
    [] field = "fitness" -> {"good", "poor"}

(***************************************************************************)
(* AIAssistant and RouteTracker: values of the first render                *)
(***************************************************************************)
\* the JavaScript value null
Null == [null |-> TRUE]

\* the two sources of the chat component
Variants == {"AIAssistant.js", "Apertus"}

\* const scenarios = [...]: id and prompt of the four quick-start scenarios
scenarios ==
  <<[id |-> "hike-planning",
     prompt |-> "I want to hike from Zermatt to Matterhorn Base Camp tomorrow. What should I know about current conditions and safety recommendations?"],
    [id |-> "weather-concern",
     prompt |-> "The weather looks uncertain for my ski trip to Verbier. Should I be worried about conditions on the off-piste areas?"],
    [id |-> "emergency-help",
     prompt |-> "I am stuck in bad weather near Jungfraujoch and visibility is very poor. What should I do?"],
    [id |-> "equipment-advice",
     prompt |-> "What equipment do I need for a winter hike in the Swiss Alps with current conditions?"]>>

\* the welcome message: a bot message (first line of its text)
welcomeMessage ==
  [type |-> "bot", content |-> "Welcome to Alpine Trail Guardian AI"]

\* const [messages, ...] = useState([]) and the other hooks of AIAssistant;
\* the session storage of a fresh page holds no key
AssistantMounted(v) ==
  /\ variant = v
  /\ messages = <<>>
  /\ inputMessage = ""
  /\ isTyping = FALSE
  /\ selectedScenario = Null
  /\ welcomePending = TRUE
  /\ requests = <<>>
  /\ sessionStorage = <<>>
  /\ returned = Null

\* const routes = {...} of RouteTracker: the waypoints of each route, with
\* name, elevation and distance (the distance literal as written)
trackerRoutes ==
  [x \in {"matterhorn-base", "jungfrau-glacier", "verbier-slopes"} |->
     CASE x = "matterhorn-base" ->
            [waypoints |->
               <<[name |-> "Zermatt Village", elevation |-> 1620, distance |-> "0"],
                 [name |-> "Furi Station", elevation |-> 1864, distance |-> "3.2"],
                 [name |-> "Schwarzsee", elevation |-> 2583, distance |-> "7.8"],
                 [name |-> "Matterhorn Base Camp", elevation |-> 2467, distance |-> "12.4"]>>]
       [] x = "jungfrau-glacier" ->
            [waypoints |->
               <<[name |-> "Kleine Scheidegg", elevation |-> 2061, distance |-> "0"],
                 [name |-> "Eigergletscher", elevation |-> 2320, distance |-> "4.2"],
                 [name |-> "Moenchsjochhuette", elevation |-> 3650, distance |-> "11.5"],
                 [name |-> "Jungfraujoch", elevation |-> 3454, distance |-> "15.8"]>>]
       [] x = "verbier-slopes" ->
            [waypoints |->
               <<[name |-> "Mont Fort Summit", elevation |-> 3330, distance |-> "0"],
                 [name |-> "Col des Gentianes", elevation |-> 2894, distance |-> "2.1"],
                 [name |-> "La Chaux", elevation |-> 2260, distance |-> "5.4"],
                 [name |-> "Verbier Village", elevation |-> 1500, distance |-> "8.2"]>>]]

\* the useState calls of RouteTracker; no interval is set before the first
\* effect, and the effect of the first commit sets none (status stopped)
TrackerMounted ==
  /\ trackerSelectedRoute = "matterhorn-base"
  /\ trackingStatus = "stopped"
  /\ currentPosition = Null
  /\ routeProgress = FZero
  /\ elapsedTime = 0
  /\ weatherAlerts = <<>>
  /\ interval = Null
  /\ nTicks = 0

\* const emergencyContacts = [...] of EmergencyPanel: id, name and number
emergencyContacts ==
  <<[id |-> "rega", name |-> "REGA Swiss Air Rescue", number |-> "1414"],
    [id |-> "emergency", name |-> "European Emergency", number |-> "112"],
    [id |-> "police", name |-> "Swiss Police", number |-> "117"],
    [id |-> "fire", name |-> "Fire Department", number |-> "118"],
    [id |-> "medical", name |-> "Medical Emergency", number |-> "144"]>>

\* the useState calls of EmergencyPanel; nothing has been opened and no
\* timeout is set
PanelMounted ==
  /\ isOpen = FALSE
  /\ callingNumber = Null
  /\ opened = <<>>
  /\ timeouts = 0

\* the state after the first render: the seeded factors, empty derived
\* state, and the effect of the first commit still to run
Init ==
  /\ riskFactors = DefaultRiskFactors
  /\ overallRisk = EmptyObject
  /\ recommendation = EmptyObject
  /\ selectedRoute = "matterhorn-base"
  /\ effectPending = TRUE
  /\ nUpdates = 0
  /\ AssistantMounted("AIAssistant.js")
  /\ TrackerMounted
  /\ PanelMounted

\* the effect with setRecommendation called on the first run only
RunEffectKeepsRecommendation ==
  /\ effectPending
  /\ LET r == calculateOverallRisk(riskFactors)
     IN  /\ overallRisk' = r.overallRisk
         /\ recommendation' = IF recommendation = EmptyObject
                               THEN r.recommendation ELSE recommendation
  /\ effectPending' = FALSE
  /\ UNCHANGED <<riskFactors, selectedRoute, nUpdates>>
  /\ UNCHANGED <<chatVars, trackerVars, panelVars>>

\* useEffect(() => calculateOverallRisk(), [riskFactors])
RunEffect ==
  /\ effectPending
  /\ LET r == calculateOverallRisk(riskFactors)
     IN  /\ overallRisk' = r.overallRisk
         /\ recommendation' = r.recommendation
  /\ effectPending' = FALSE
  /\ UNCHANGED <<riskFactors, selectedRoute, nUpdates>>
  /\ UNCHANGED <<chatVars, trackerVars, panelVars>>

\* the update without a new run of the effect
updateRiskFactorNoEffect(category, field, value) ==
  /\ nUpdates < MaxUpdates
  /\ riskFactors' = [riskFactors EXCEPT ![category][field] = value]
  /\ nUpdates' = nUpdates + 1
  /\ UNCHANGED <<overallRisk, recommendation, selectedRoute, effectPending>>
  /\ UNCHANGED <<chatVars, trackerVars, panelVars>>

\* updateRiskFactor(category, field, value): setRiskFactors with a copy of
\* the factors in which the one field is replaced.  The new object is a
\* changed dependency of the effect, which runs after the next commit.
updateRiskFactor(category, field, value) ==
  /\ nUpdates < MaxUpdates
  /\ riskFactors' = [riskFactors EXCEPT ![category][field] = value]
  /\ effectPending' = TRUE
  /\ nUpdates' = nUpdates + 1
  /\ UNCHANGED <<overallRisk, recommendation, selectedRoute>>
  /\ UNCHANGED <<chatVars, trackerVars, panelVars>>

\* a selector that also copies the route's elevation into the terrain factor
selectRouteSyncTerrain(id) ==
  /\ selectedRoute' = id
  /\ riskFactors' =
       [riskFactors EXCEPT !.terrain.elevation =
          (CHOOSE r \in {routes[i] : i \in 1..Len(routes)} : r.id = id).elevation]
  /\ UNCHANGED <<overallRisk, recommendation, effectPending, nUpdates>>
  /\ UNCHANGED <<chatVars, trackerVars, panelVars>>

\* onChange of the route selector: setSelectedRoute(e.target.value)
selectRoute(id) ==
  /\ selectedRoute' = id
  /\ UNCHANGED <<riskFactors, overallRisk, recommendation, effectPending,
                 nUpdates>>
  /\ UNCHANGED <<chatVars, trackerVars, panelVars>>

Update ==
  \E category \in Categories :
    \E field \in DOMAIN riskFactors[category] :
      \E value \in FieldValues(field) :
        updateRiskFactor(category, field, value)

SelectRoute == \E id \in RouteIds : selectRoute(id)

Next == Update \/ RunEffect \/ SelectRoute

Spec == Init /\ [][Next]_vars

(***************************************************************************)
(* The classifier on its own: the component mounted with any four          *)
(* sub-scores on the scale, and the effect of the first commit.            *)
(***************************************************************************)
InitCalc ==
  /\ \E w \in 0..ScoreScale, a \in 0..ScoreScale,
        t \in 0..ScoreScale, g \in 0..ScoreScale :
       riskFactors = WithScores(w, a, t, g)
  /\ overallRisk = EmptyObject
  /\ recommendation = EmptyObject
  /\ selectedRoute = "matterhorn-base"
  /\ effectPending = TRUE
  /\ nUpdates = 0
  /\ AssistantMounted("AIAssistant.js")
  /\ TrackerMounted
  /\ PanelMounted

NextCalc == RunEffect

SpecCalc == InitCalc /\ [][NextCalc]_vars

(***************************************************************************)
(* The classifier on sub-scores at and beyond the ends of the scale.       *)
(***************************************************************************)
EndScores == {-1, 0, ScoreScale, ScoreScale + 1}

InitRange ==
  /\ \E w \in EndScores, a \in EndScores, t \in EndScores, g \in EndScores :
       riskFactors = WithScores(w, a, t, g)
  /\ overallRisk = EmptyObject
  /\ recommendation = EmptyObject
  /\ selectedRoute = "matterhorn-base"
  /\ effectPending = TRUE
  /\ nUpdates = 0
  /\ AssistantMounted("AIAssistant.js")
  /\ TrackerMounted
  /\ PanelMounted

NextRange == RunEffect

SpecRange == InitRange /\ [][NextRange]_vars

(***************************************************************************)
(* Strings.  A string is a sequence of characters; the methods used by the *)
(* chat are computed character by character.                               *)
(***************************************************************************)
Whitespace == {" ", "\t", "\n", "\r"}

\* String.prototype.trim: leading and trailing white space removed
trimStart[s \in STRING] ==
  IF Len(s) > 0 /\ SubSeq(s, 1, 1) \in Whitespace
  THEN trimStart[SubSeq(s, 2, Len(s))] ELSE s

trimEnd[s \in STRING] ==
  IF Len(s) > 0 /\ SubSeq(s, Len(s), Len(s)) \in Whitespace
  THEN trimEnd[SubSeq(s, 1, Len(s) - 1)] ELSE s

trim(s) == trimEnd[trimStart[s]]

UpperCaseLetters == "ABCDEFGHIJKLMNOPQRSTUVWXYZ"

LowerCaseLetters == "abcdefghijklmnopqrstuvwxyz"

\* the lower-case form of one character
lowerChar(c) ==
  IF \E i \in 1..Len(UpperCaseLetters) : SubSeq(UpperCaseLetters, i, i) = c
  THEN LET i == CHOOSE j \in 1..Len(UpperCaseLetters) :
                  SubSeq(UpperCaseLetters, j, j) = c
       IN  SubSeq(LowerCaseLetters, i, i)
  ELSE c

\* String.prototype.toLowerCase: every character replaced by its lower-case
\* form (the two halves of the string one after the other)
toLowerCase[s \in STRING] ==
  IF Len(s) = 0 THEN ""
  ELSE IF Len(s) = 1 THEN lowerChar(s)
  ELSE toLowerCase[SubSeq(s, 1, Len(s) \div 2)]
         \o toLowerCase[SubSeq(s, Len(s) \div 2 + 1, Len(s))]

\* String.prototype.includes: sub occurs in s at some position
includes(s, sub) ==
  \E i \in 1..(Len(s) - Len(sub) + 1) : SubSeq(s, i, i + Len(sub) - 1) = sub

(***************************************************************************)
(* RAGService                                                              *)
(***************************************************************************)
\* the key of the session id in sessionStorage
SessionKey == "alpine_rag_session"

\* ids of the form session_<Date.now()>_<random>
SessionIds == {"session_1758300000000_k3j9x2m1q", "session_1758300000750_a8d2f0c4z"}

\* Storage.setItem and Storage.removeItem
setItem(storage, key, value) ==
  [k \in DOMAIN storage \cup {key} |-> IF k = key THEN value ELSE storage[k]]

removeItem(storage, key) == [k \in DOMAIN storage \ {key} |-> storage[k]]

\* a session id that is returned without being stored
getSessionIdUnstored(id) ==
  IF SessionKey \in DOMAIN sessionStorage /\ sessionStorage[SessionKey] # ""
  THEN [value |-> sessionStorage[SessionKey], storage |-> sessionStorage]
  ELSE [value |-> id, storage |-> sessionStorage]

\* getSessionId(): the stored id, or else the new id, which is stored; id
\* is the id that is generated when none is stored.  The value returned and
\* the storage after the call.
getSessionId(id) ==
  IF SessionKey \in DOMAIN sessionStorage /\ sessionStorage[SessionKey] # ""
  THEN [value |-> sessionStorage[SessionKey], storage |-> sessionStorage]
  ELSE [value |-> id, storage |-> setItem(sessionStorage, SessionKey, id)]

\* const fallbackResponses = {...} (the texts without their leading symbol)
fallbackResponses ==
  [weather |-> "I'm currently unable to access real-time weather data. Please check MeteoSwiss (meteoswiss.admin.ch) for current conditions and warnings. For emergencies, call 1414 (Swiss Alpine Rescue).",
   route |-> "I can't access live route conditions right now. Please check with local mountain guides or visitor centers for current trail conditions. Always inform someone of your planned route.",
   emergency |-> "**SWISS EMERGENCY NUMBERS**: 1414 - Swiss Alpine Rescue (REGA), 112 - European Emergency Number, 117 - Police, 118 - Fire Department, 144 - Medical Emergency/Ambulance. For mountain accidents: Call 1414 first!",
   avalanche |-> "For current avalanche conditions, please check the official SLF bulletin at slf.ch. Never venture off-piste without proper equipment and knowledge. When in doubt, stay on marked trails.",
   equipment |-> "I can't access equipment recommendations right now. For proper alpine gear, consult local mountain shops or the Swiss Alpine Club (SAC) guidelines. Always carry safety equipment appropriate for conditions.",
   default |-> "I'm temporarily unable to provide detailed guidance. For immediate safety information: Weather: meteoswiss.admin.ch, Avalanche: slf.ch, Emergency: 1414, Route conditions: local tourist offices. I'll be back with full AI assistance soon!"]

\* the chain with the weather test before the emergency test
responseTypeWeatherFirst[messageLC \in STRING] ==
  IF includes(messageLC, "weather") \/ includes(messageLC, "forecast")
  THEN "weather"
  ELSE IF \/ includes(messageLC, "emergency") \/ includes(messageLC, "help")
          \/ includes(messageLC, "stuck") \/ includes(messageLC, "numbers")
          \/ includes(messageLC, "contact") \/ includes(messageLC, "rescue")
          \/ includes(messageLC, "call") \/ includes(messageLC, "1414")
          \/ includes(messageLC, "112")
  THEN "emergency"
  ELSE IF \/ includes(messageLC, "route") \/ includes(messageLC, "trail")
          \/ includes(messageLC, "hike")
  THEN "route"
  ELSE IF includes(messageLC, "avalanche") \/ includes(messageLC, "snow")
  THEN "avalanche"
  ELSE IF includes(messageLC, "equipment") \/ includes(messageLC, "gear")
  THEN "equipment"
  ELSE "default"

\* let responseType = 'default'; if (...) ... else if (...) ...
responseType[messageLC \in STRING] ==
  IF \/ includes(messageLC, "emergency") \/ includes(messageLC, "help")
     \/ includes(messageLC, "stuck") \/ includes(messageLC, "numbers")
     \/ includes(messageLC, "contact") \/ includes(messageLC, "rescue")
     \/ includes(messageLC, "call") \/ includes(messageLC, "1414")
     \/ includes(messageLC, "112")
  THEN "emergency"
  ELSE IF includes(messageLC, "weather") \/ includes(messageLC, "forecast")
  THEN "weather"
  ELSE IF \/ includes(messageLC, "route") \/ includes(messageLC, "trail")
          \/ includes(messageLC, "hike")
  THEN "route"
  ELSE IF includes(messageLC, "avalanche") \/ includes(messageLC, "snow")
  THEN "avalanche"
  ELSE IF includes(messageLC, "equipment") \/ includes(messageLC, "gear")
  THEN "equipment"
  ELSE "default"

\* the literal 0.3 of the fallback response
FallbackConfidence == Decimal[3, 10]

\* the literal 0.5 of formatResponse
DefaultConfidence == Decimal[5, 10]

\* getFallbackResponse(message, error)
getFallbackResponseWeatherFirst(message, error) ==
  [message |-> fallbackResponses[responseTypeWeatherFirst[toLowerCase[message]]],
   sources |-> <<>>,
   confidence |-> FallbackConfidence,
   responseTime |-> 0,
   modelUsed |-> "fallback",
   locationContext |-> Null,
   suggestions |-> <<"Check weather conditions", "Review safety equipment",
                     "Contact local guides",
                     "Call emergency services if needed">>,
   isTemporary |-> TRUE,
   error |-> error.message]

getFallbackResponse(message, error) ==
  [message |-> fallbackResponses[responseType[toLowerCase[message]]],
   sources |-> <<>>,
   confidence |-> FallbackConfidence,
   responseTime |-> 0,
   modelUsed |-> "fallback",
   locationContext |-> Null,
   suggestions |-> <<"Check weather conditions", "Review safety equipment",
                     "Contact local guides",
                     "Call emergency services if needed">>,
   isTemporary |-> TRUE,
   error |-> error.message]

\* bodies of an OK answer of the backend: one with every field, one with the
\* message only
Answers ==
  {[message |-> "Avalanche danger is considerable above 2200 m; stay on marked trails.",
    sources |-> <<"SLF bulletin">>, confidence |-> Decimal[9, 10],
    response_time |-> 2, model_used |-> "apertus-70b",
    location_context |-> [name |-> "Zermatt"], suggestions |-> <<"Check the SLF bulletin">>],
   [message |-> "Conditions are stable today."]}

\* the JavaScript value undefined
Undefined == [undefined |-> TRUE]

\* data.field || fallback for a field that may be missing
orElse(data, field, fallback) ==
  IF field \in DOMAIN data THEN data[field] ELSE fallback

\* formatResponse(data); a confidence or response time of 0 is replaced like
\* a missing one
formatResponse(data) ==
  [message |-> data.message,
   sources |-> orElse(data, "sources", <<>>),
   confidence |-> IF "confidence" \in DOMAIN data /\ ~IsZero(data.confidence)
                  THEN data.confidence ELSE DefaultConfidence,
   responseTime |-> orElse(data, "response_time", 0),
   modelUsed |-> orElse(data, "model_used", "apertus-8b"),
   locationContext |-> orElse(data, "location_context", Undefined),
   suggestions |-> orElse(data, "suggestions", <<>>)]

\* the responses of the backend and of the development proxy
Responses ==
  {[ok |-> TRUE, status |-> 200, statusText |-> "OK"],
   [ok |-> FALSE, status |-> 502, statusText |-> "Bad Gateway"]}

\* the errors with which fetch rejects: no connection
NetworkErrors == {[name |-> "TypeError", message |-> "Failed to fetch"]}

\* the error with which fetch rejects after controller.abort()
AbortError == [name |-> "AbortError", message |-> "The user aborted a request."]

\* the error of response.json() on a body that is not JSON
SyntaxError ==
  [name |-> "SyntaxError", message |-> "Unexpected token < in JSON at position 0"]

\* the calls of sendMessage recorded in a run
MaxRequests == 2

\* a call of sendMessage that is waiting for fetch
NewRequest(caller, message, session_id) ==
  [caller |-> caller, message |-> message, session_id |-> session_id,
   stage |-> "fetch", outcome |-> "pending", result |-> Null]

\* sendMessage(message, context) up to the first await: the request body is
\* built, which reads or creates the session id, the timer of the abort
\* controller is set and fetch is started.  caller tells who awaits the
\* answer, id is the session id generated if none is stored.
sendMessage(caller, message, id) ==
  /\ Len(requests) < MaxRequests
  /\ requests' = Append(requests, NewRequest(caller, message, getSessionId(id).value))
  /\ sessionStorage' = getSessionId(id).storage
  /\ returned' = [value |-> getSessionId(id).value]

\* const botMessage = {...}: the bot message made from a response
botMessage(response) ==
  [type |-> "bot", content |-> response.message,
   confidence |-> response.confidence, sources |-> response.sources]

\* const userMessage = {...}
userMessage(message) == [type |-> "user", content |-> message]

\* sendMessage returns result for call i.  When handleSendMessage awaits the
\* call it continues in the same turn: the bot message is appended and the
\* typing indicator is switched off.
Settle(i, outcome, result) ==
  /\ requests' = [requests EXCEPT ![i] = [@ EXCEPT !.stage = "done", !.outcome = outcome, !.result = result]]
  /\ IF requests[i].caller = "handleSendMessage"
     THEN /\ messages' = Append(messages, botMessage(result))
          /\ isTyping' = FALSE
     ELSE UNCHANGED <<messages, isTyping>>
  /\ UNCHANGED <<variant, inputMessage, selectedScenario, welcomePending, sessionStorage, returned>>
  /\ UNCHANGED <<riskVars, trackerVars, panelVars>>

\* fetch rejects with a network error: the catch block returns the fallback
fetchRejects(i, error) ==
  /\ requests[i].stage = "fetch"
  /\ Settle(i, "network error", getFallbackResponse(requests[i].message, error))

\* the timer of 60 seconds fires before fetch has answered:
\* controller.abort() makes fetch reject with an AbortError
timeoutAborts(i) ==
  /\ requests[i].stage = "fetch"
  /\ Settle(i, "timeout", getFallbackResponse(requests[i].message, AbortError))

\* the response formatted whatever its status is
fetchRespondsUnchecked(i, response) ==
  /\ requests[i].stage = "fetch"
  /\ IF response.ok
     THEN /\ requests' = [requests EXCEPT ![i].stage = "json"]
          /\ UNCHANGED <<messages, isTyping>>
          /\ UNCHANGED <<variant, inputMessage, selectedScenario, welcomePending, sessionStorage, returned>>
          /\ UNCHANGED <<riskVars, trackerVars, panelVars>>
     ELSE Settle(i, "not ok", formatResponse([message |-> "RAG Service temporarily unavailable"]))

\* fetch resolves with a response: the timer is cleared; a response that is
\* not ok throws inside the try block, an ok one is read with json()
fetchResponds(i, response) ==
  /\ requests[i].stage = "fetch"
  /\ IF response.ok
     THEN /\ requests' = [requests EXCEPT ![i].stage = "json"]
          /\ UNCHANGED <<messages, isTyping>>
          /\ UNCHANGED <<variant, inputMessage, selectedScenario, welcomePending, sessionStorage, returned>>
          /\ UNCHANGED <<riskVars, trackerVars, panelVars>>
     ELSE Settle(i, "not ok",
                 getFallbackResponse(requests[i].message,
                   [name |-> "Error",
                    message |-> "RAG API error: " \o ToString(response.status)
                                  \o " " \o response.statusText]))

\* response.json() resolves with the body
jsonResolves(i, data) ==
  /\ requests[i].stage = "json"
  /\ Settle(i, "ok", formatResponse(data))

\* response.json() rejects: the body is not JSON
jsonRejects(i) ==
  /\ requests[i].stage = "json"
  /\ Settle(i, "bad body", getFallbackResponse(requests[i].message, SyntaxError))

FetchRejects ==
  \E i \in 1..Len(requests) : \E error \in NetworkErrors : fetchRejects(i, error)

TimeoutAborts == \E i \in 1..Len(requests) : timeoutAborts(i)

FetchResponds ==
  \E i \in 1..Len(requests) : \E response \in Responses : fetchResponds(i, response)

JsonResolves ==
  \E i \in 1..Len(requests) : \E data \in Answers : jsonResolves(i, data)

JsonRejects == \E i \in 1..Len(requests) : jsonRejects(i)

\* the steps of the calls in flight
Network ==
  FetchRejects \/ TimeoutAborts \/ FetchResponds \/ JsonResolves \/ JsonRejects

(***************************************************************************)
(* The service called on its own.                                          *)
(***************************************************************************)
\* messages passed to sendMessage
ServiceTexts == {"Is there snow on the trail?", "HELP", "hello"}

\* ragService.sendMessage(message) by a caller other than the chat
CallSendMessage ==
  \E message \in ServiceTexts : \E id \in SessionIds :
    /\ sendMessage("caller", message, id)
    /\ UNCHANGED <<variant, messages, inputMessage, isTyping, selectedScenario, welcomePending>>
    /\ UNCHANGED <<riskVars, trackerVars, panelVars>>

\* ragService.getSessionId()
CallGetSessionId ==
  \E id \in SessionIds :
    /\ sessionStorage' = getSessionId(id).storage
    /\ returned' = [value |-> getSessionId(id).value]
    /\ UNCHANGED <<variant, messages, inputMessage, isTyping, selectedScenario, welcomePending, requests>>
    /\ UNCHANGED <<riskVars, trackerVars, panelVars>>

\* ragService.clearSession()
clearSession ==
  /\ sessionStorage' = removeItem(sessionStorage, SessionKey)
  /\ UNCHANGED <<variant, messages, inputMessage, isTyping, selectedScenario, welcomePending, requests, returned>>
  /\ UNCHANGED <<riskVars, trackerVars, panelVars>>

NextService == CallSendMessage \/ CallGetSessionId \/ clearSession \/ Network

SpecService == Init /\ [][NextService]_vars

(***************************************************************************)
(* AIAssistant                                                             *)
(***************************************************************************)
\* useEffect(() => { ... setMessages([welcomeMessage]) }, []) of
\* AIAssistant.js: the effect of the first commit
WelcomeEffect ==
  /\ variant = "AIAssistant.js"
  /\ welcomePending
  /\ messages' = <<welcomeMessage>>
  /\ welcomePending' = FALSE
  /\ UNCHANGED <<variant, inputMessage, isTyping, selectedScenario, requests, sessionStorage, returned>>
  /\ UNCHANGED <<riskVars, trackerVars, panelVars>>

\* initializeAI of the Apertus variant after await getSystemStatus():
\* setMessages([welcomeMessage])
initializeAI ==
  /\ variant = "Apertus"
  /\ welcomePending
  /\ messages' = <<welcomeMessage>>
  /\ welcomePending' = FALSE
  /\ UNCHANGED <<variant, inputMessage, isTyping, selectedScenario, requests, sessionStorage, returned>>
  /\ UNCHANGED <<riskVars, trackerVars, panelVars>>

\* the user can act: in AIAssistant.js the effect of the first commit has
\* run before any event is handled; the Apertus variant is still waiting for
\* the system status then
Interactive == variant = "Apertus" \/ ~welcomePending

\* texts typed into the input
InputTexts == {"", "  ", "snow gear"}

\* onChange of the input: setInputMessage(e.target.value)
typeInput(text) ==
  /\ Interactive
  /\ inputMessage' = text
  /\ UNCHANGED <<variant, messages, isTyping, selectedScenario, welcomePending, requests, sessionStorage, returned>>
  /\ UNCHANGED <<riskVars, trackerVars, panelVars>>

\* handleSendMessage(message) up to its await: nothing for a message that is
\* empty after trim; otherwise the user message is appended, the input is
\* emptied, the typing indicator is switched on and sendMessage is called
handleSendMessage(message) ==
  IF trim(message) = ""
  THEN UNCHANGED <<messages, inputMessage, isTyping, requests, sessionStorage, returned>>
  ELSE /\ messages' = Append(messages, userMessage(message))
       /\ inputMessage' = ""
       /\ isTyping' = TRUE
       /\ \E id \in SessionIds : sendMessage("handleSendMessage", message, id)

\* onClick of the send button, which is disabled while the input is blank or
\* the typing indicator is on
ClickSend ==
  /\ Interactive
  /\ ~(trim(inputMessage) = "" \/ isTyping)
  /\ handleSendMessage(inputMessage)
  /\ UNCHANGED <<variant, selectedScenario, welcomePending>>
  /\ UNCHANGED <<riskVars, trackerVars, panelVars>>

\* onKeyPress of the input with the Enter key
PressEnter ==
  /\ Interactive
  /\ handleSendMessage(inputMessage)
  /\ UNCHANGED <<variant, selectedScenario, welcomePending>>
  /\ UNCHANGED <<riskVars, trackerVars, panelVars>>

\* handleScenarioClick(scenario); the scenario buttons are rendered while
\* there is at most one message.  AIAssistant.js also selects the scenario.
handleScenarioClick(scenario) ==
  /\ Interactive
  /\ Len(messages) <= 1
  /\ selectedScenario' = IF variant = "AIAssistant.js" THEN scenario ELSE selectedScenario
  /\ handleSendMessage(scenario.prompt)
  /\ UNCHANGED <<variant, welcomePending>>
  /\ UNCHANGED <<riskVars, trackerVars, panelVars>>

TypeInput == \E text \in InputTexts : typeInput(text)

\* the scenario buttons that are clicked: the first and the third
ClickedScenarios == {k \in 1..Len(scenarios) : k % 2 = 1}

ScenarioClick == \E k \in ClickedScenarios : handleScenarioClick(scenarios[k])

\* the chat mounted in either variant
InitChat ==
  /\ riskFactors = DefaultRiskFactors
  /\ overallRisk = EmptyObject
  /\ recommendation = EmptyObject
  /\ selectedRoute = "matterhorn-base"
  /\ effectPending = TRUE
  /\ nUpdates = 0
  /\ \E v \in Variants : AssistantMounted(v)
  /\ TrackerMounted
  /\ PanelMounted

NextChat ==
  \/ WelcomeEffect \/ initializeAI \/ TypeInput \/ ClickSend \/ PressEnter
  \/ ScenarioClick \/ Network

SpecChat == InitChat /\ [][NextChat]_vars

\* every call in flight is answered or fails in the end: the network
\* delivers a response, an error or nothing within the 60 seconds of the
\* timer, and a body that has started to arrive ends or breaks off
SpecChatFair ==
  /\ SpecChat
  /\ \A i \in 1..MaxRequests :
       /\ WF_vars(i <= Len(requests) /\ (timeoutAborts(i) \/ \E response \in Responses : fetchResponds(i, response)))
       /\ WF_vars(i <= Len(requests) /\ (jsonRejects(i) \/ \E data \in Answers : jsonResolves(i, data)))

(***************************************************************************)
(* The fallback texts: a message is in the input and is sent.              *)
(***************************************************************************)
\* words with and without keywords, in several spellings
Fragments ==
  {"Emergency", "help", "STUCK", "numbers", "Contact", "rescue", "call",
   "1414", "112", "Weather", "FORECAST", "route", "Trail", "hike",
   "AVALANCHE", "snow", "Equipment", "gear", "hello", "2112x", "Helpful",
   "snowboard", "skiing"}

\* messages of one or two words
FallbackTexts == Fragments \cup {a \o " " \o b : a \in Fragments, b \in Fragments}

\* AIAssistant.js after the welcome message, with a text typed into the input
InitFallback ==
  /\ riskFactors = DefaultRiskFactors
  /\ overallRisk = EmptyObject
  /\ recommendation = EmptyObject
  /\ selectedRoute = "matterhorn-base"
  /\ effectPending = TRUE
  /\ nUpdates = 0
  /\ variant = "AIAssistant.js"
  /\ messages = <<welcomeMessage>>
  /\ \E text \in FallbackTexts : inputMessage = text
  /\ isTyping = FALSE
  /\ selectedScenario = Null
  /\ welcomePending = FALSE
  /\ requests = <<>>
  /\ sessionStorage = <<>>
  /\ returned = Null
  /\ TrackerMounted
  /\ PanelMounted

NextFallback == ClickSend \/ PressEnter \/ Network

SpecFallback == InitFallback /\ [][NextFallback]_vars

(***************************************************************************)
(* RouteTracker                                                            *)
(***************************************************************************)
\* interval callbacks run in one behaviour
MaxTicks == 2

\* values of Math.random(): 0, 0.5 and the largest multiple of 2^-52 below 1
RandomValues ==
  {FZero, Decimal[1, 2],
   [neg |-> FALSE, m |-> WSub[WShl[WOne, Precision], WFromInt[2]], e |-> -Precision]}

\* setRouteProgress updater of simulateProgress:
\* Math.min(prev + Math.random() * 0.5, 100); the product with 0.5 is the
\* exact half
simulateProgressUncapped[prev \in Floats, random \in Floats] ==
  FAdd[prev, FDivInt[random, 2]]

simulateProgress[prev \in Floats, random \in Floats] ==
  IF FLeq[FAdd[prev, FDivInt[random, 2]], FromInt[100]]
  THEN FAdd[prev, FDivInt[random, 2]]
  ELSE FromInt[100]

\* {...currentWaypoint, progress: newProgress, nextWaypoint: waypoints[i + 1]}
positionOf(waypoints, i, newProgress) ==
  [name |-> waypoints[i + 1].name,
   elevation |-> waypoints[i + 1].elevation,
   distance |-> waypoints[i + 1].distance,
   progress |-> newProgress,
   nextWaypoint |-> IF i + 2 <= Len(waypoints) THEN waypoints[i + 2] ELSE Undefined]

\* the position set by simulateProgress for routes[key]: the waypoint of
\* index Math.floor((newProgress / 100) * (waypoints.length - 1))
positionAt[key \in STRING, newProgress \in Floats] ==
  positionOf(trackerRoutes[key].waypoints,
             MathFloor[FMulInt[FDivInt[newProgress, 100],
                               Len(trackerRoutes[key].waypoints) - 1]],
             newProgress)

\* the two alerts of checkWeatherConditions for the position it closes over
alerts(position) ==
  <<[type |-> "weather", severity |-> "warning",
     location |-> IF position = Null THEN "Current location" ELSE position.name],
    [type |-> "avalanche", severity |-> "danger",
     location |-> IF position = Null THEN "Current location" ELSE position.name]>>

\* checkWeatherConditions: with Math.random() < 0.001 (pick > 0) one of the
\* alerts is appended
checkWeatherConditions(pick) ==
  IF pick = 0 THEN weatherAlerts
  ELSE Append(weatherAlerts, alerts(interval.currentPosition)[pick])

\* the effect on [trackingStatus]: the interval of the previous commit is
\* cleared, and in status 'tracking' a new one is set whose callback closes
\* over selectedRoute and currentPosition of the commit the effect belongs
\* to.  The effects of a click are flushed with its commit.
effect(status, position) ==
  IF status = "tracking"
  THEN [selectedRoute |-> trackerSelectedRoute, currentPosition |-> position]
  ELSE Null


\* the interval callback: setElapsedTime(prev => prev + 1), simulateProgress()
\* and checkWeatherConditions() of the commit that set the interval
TickUncapped ==
  /\ interval # Null
  /\ nTicks < MaxTicks
  /\ \E random \in RandomValues, pick \in 0..2 :
       /\ routeProgress' = simulateProgressUncapped[routeProgress, random]
       /\ currentPosition' = positionAt[interval.selectedRoute, simulateProgress[routeProgress, random]]
       /\ weatherAlerts' = checkWeatherConditions(pick)
  /\ elapsedTime' = elapsedTime + 1
  /\ nTicks' = nTicks + 1
  /\ UNCHANGED <<trackerSelectedRoute, trackingStatus, interval>>
  /\ UNCHANGED <<riskVars, chatVars, panelVars>>

TickStopsAtEnd ==
  /\ interval # Null
  /\ nTicks < MaxTicks
  /\ \E random \in RandomValues, pick \in 0..2 :
       /\ routeProgress' = simulateProgress[routeProgress, random]
       /\ currentPosition' = positionAt[interval.selectedRoute, simulateProgress[routeProgress, random]]
       /\ weatherAlerts' = checkWeatherConditions(pick)
       /\ trackingStatus' = IF simulateProgress[routeProgress, random] = FromInt[100]
                            THEN "stopped" ELSE trackingStatus
  /\ elapsedTime' = elapsedTime + 1
  /\ nTicks' = nTicks + 1
  /\ UNCHANGED <<trackerSelectedRoute, interval>>
  /\ UNCHANGED <<riskVars, chatVars, panelVars>>

Tick ==
  /\ interval # Null
  /\ nTicks < MaxTicks
  /\ \E random \in RandomValues, pick \in 0..2 :
       /\ routeProgress' = simulateProgress[routeProgress, random]
       /\ currentPosition' = positionAt[interval.selectedRoute, simulateProgress[routeProgress, random]]
       /\ weatherAlerts' = checkWeatherConditions(pick)
  /\ elapsedTime' = elapsedTime + 1
  /\ nTicks' = nTicks + 1
  /\ UNCHANGED <<trackerSelectedRoute, trackingStatus, interval>>
  /\ UNCHANGED <<riskVars, chatVars, panelVars>>

\* startTracking, the onClick of Start Tracking (shown in status 'stopped')
\* and of Resume (shown in status 'paused')
startTracking ==
  /\ trackingStatus \in {"stopped", "paused"}
  /\ trackingStatus' = "tracking"
  /\ currentPosition' = IF IsZero(routeProgress)
                        THEN trackerRoutes[trackerSelectedRoute].waypoints[1]
                        ELSE currentPosition
  /\ interval' = effect(trackingStatus', currentPosition')
  /\ UNCHANGED <<trackerSelectedRoute, routeProgress, elapsedTime, weatherAlerts, nTicks>>
  /\ UNCHANGED <<riskVars, chatVars, panelVars>>

\* pauseTracking, the onClick of Pause (shown in status 'tracking')
pauseTracking ==
  /\ trackingStatus = "tracking"
  /\ trackingStatus' = "paused"
  /\ interval' = effect(trackingStatus', currentPosition)
  /\ UNCHANGED <<trackerSelectedRoute, currentPosition, routeProgress, elapsedTime, weatherAlerts, nTicks>>
  /\ UNCHANGED <<riskVars, chatVars, panelVars>>

\* stopTracking, the onClick of Stop (shown in status 'tracking' or 'paused')
stopTrackingKeepsInterval ==
  /\ trackingStatus \in {"tracking", "paused"}
  /\ trackingStatus' = "stopped"
  /\ routeProgress' = FZero
  /\ elapsedTime' = 0
  /\ currentPosition' = Null
  /\ weatherAlerts' = <<>>
  /\ UNCHANGED <<trackerSelectedRoute, interval, nTicks>>
  /\ UNCHANGED <<riskVars, chatVars, panelVars>>

stopTracking ==
  /\ trackingStatus \in {"tracking", "paused"}
  /\ trackingStatus' = "stopped"
  /\ routeProgress' = FZero
  /\ elapsedTime' = 0
  /\ currentPosition' = Null
  /\ weatherAlerts' = <<>>
  /\ interval' = effect(trackingStatus', currentPosition')
  /\ UNCHANGED <<trackerSelectedRoute, nTicks>>
  /\ UNCHANGED <<riskVars, chatVars, panelVars>>

\* onClick of a route card: setSelectedRoute(key); the effect does not
\* depend on selectedRoute, so a set interval keeps its callback
setSelectedRoute(key) ==
  /\ trackerSelectedRoute' = key
  /\ UNCHANGED <<trackingStatus, currentPosition, routeProgress, elapsedTime, weatherAlerts, interval, nTicks>>
  /\ UNCHANGED <<riskVars, chatVars, panelVars>>

SelectTrackerRoute == \E key \in DOMAIN trackerRoutes : setSelectedRoute(key)

\* tracking near the end of the selected route: the states after 398 and 399
\* interval callbacks that each drew Math.random() = 0.5
NearEnd ==
  {[progress |-> Decimal[995, 10], elapsedTime |-> 398],
   [progress |-> Decimal[9975, 100], elapsedTime |-> 399]}

TrackerNearEnd(late) ==
  /\ trackerSelectedRoute = "matterhorn-base"
  /\ trackingStatus = "tracking"
  /\ currentPosition = positionAt["matterhorn-base", late.progress]
  /\ routeProgress = late.progress
  /\ elapsedTime = late.elapsedTime
  /\ weatherAlerts = <<>>
  /\ interval = [selectedRoute |-> "matterhorn-base",
                 currentPosition |-> trackerRoutes["matterhorn-base"].waypoints[1]]
  /\ nTicks = 0

\* the tracker at mount, or tracking near the end of the route
InitTracker ==
  /\ riskFactors = DefaultRiskFactors
  /\ overallRisk = EmptyObject
  /\ recommendation = EmptyObject
  /\ selectedRoute = "matterhorn-base"
  /\ effectPending = TRUE
  /\ nUpdates = 0
  /\ AssistantMounted("AIAssistant.js")
  /\ TrackerMounted \/ \E late \in NearEnd : TrackerNearEnd(late)
  /\ PanelMounted

NextTracker ==
  \/ startTracking \/ pauseTracking \/ stopTracking \/ SelectTrackerRoute
  \/ Tick

SpecTracker == InitTracker /\ [][NextTracker]_vars

(***************************************************************************)
(* EmergencyPanel                                                          *)
(***************************************************************************)
\* confirmed calls in one behaviour
MaxCalls == 2

\* handleCall(contact), the onClick of a call button; the buttons are
\* rendered while the panel is open, and a button is disabled while another
\* number is being called.  window.confirm blocks the handler, so the
\* answer of the user (confirmed) is part of the step: on OK
\* window.open(`tel:${contact.number}`) and a timeout of 3000 ms are
\* issued and callingNumber is left at the number, on Cancel callingNumber
\* is set back to null in the same batch.
handleCallDialsFirst(contact, confirmed) ==
  /\ isOpen
  /\ ~(callingNumber # Null /\ callingNumber # [value |-> contact.number])
  /\ Len(opened) < MaxCalls
  /\ opened' = Append(opened, "tel:" \o contact.number)
  /\ IF confirmed
     THEN /\ callingNumber' = [value |-> contact.number]
          /\ timeouts' = timeouts + 1
     ELSE /\ callingNumber' = Null
          /\ UNCHANGED timeouts
  /\ UNCHANGED isOpen
  /\ UNCHANGED <<riskVars, chatVars, trackerVars>>

handleCall(contact, confirmed) ==
  /\ isOpen
  /\ ~(callingNumber # Null /\ callingNumber # [value |-> contact.number])
  /\ Len(opened) < MaxCalls
  /\ IF confirmed
     THEN /\ callingNumber' = [value |-> contact.number]
          /\ opened' = Append(opened, "tel:" \o contact.number)
          /\ timeouts' = timeouts + 1
     ELSE /\ callingNumber' = Null
          /\ UNCHANGED <<opened, timeouts>>
  /\ UNCHANGED isOpen
  /\ UNCHANGED <<riskVars, chatVars, trackerVars>>

\* the callback of setTimeout(..., 3000): setCallingNumber(null)
timeoutFires ==
  /\ timeouts > 0
  /\ callingNumber' = Null
  /\ timeouts' = timeouts - 1
  /\ UNCHANGED <<isOpen, opened>>
  /\ UNCHANGED <<riskVars, chatVars, trackerVars>>

\* setIsOpen(!isOpen) of the floating button; setIsOpen(false) of the
\* overlay and of the close button, which are rendered while the panel is
\* open
togglePanel ==
  /\ isOpen' = ~isOpen
  /\ UNCHANGED <<callingNumber, opened, timeouts>>
  /\ UNCHANGED <<riskVars, chatVars, trackerVars>>

NextPanel ==
  \/ togglePanel
  \/ \E k \in 1..Len(emergencyContacts) : \E confirmed \in BOOLEAN :
       handleCall(emergencyContacts[k], confirmed)
  \/ timeoutFires

SpecPanel == Init /\ [][NextPanel]_vars

\* a timeout that has been set runs: the page stays loaded and its timers
\* are served
SpecPanelFair == SpecPanel /\ WF_vars(timeoutFires)

(***************************************************************************)
(* Properties                                                              *)
(***************************************************************************)
Computed == ~effectPending

\* the weighted sum of the four sub-scores, in hundredths
Hundredths(rf) ==
  30 * rf.weather.score + 35 * rf.avalanche.score
    + 20 * rf.terrain.score + 15 * rf.group.score

AllScores(k) == \A c \in Categories : riskFactors[c].score = k

\* C1: for all sub-scores in 0..10 the score is the weighted sum
\* 0.30*weather + 0.35*avalanche + 0.20*terrain + 0.15*group, i.e. one
\* hundredth of 30*weather + 35*avalanche + 20*terrain + 15*group.
C1_ScoreIsWeightedSum ==
  Computed => overallRisk.score = Decimal[Hundredths(riskFactors), 100]

\* C2: the tier is the first matching band in ascending order with
\* inclusive upper bounds 3, 5 and 7; every score gets exactly one tier.
C2_TierByInclusiveBands ==
  Computed =>
    LET s == overallRisk.score
        l == overallRisk.level
    IN  /\ l \in {"LOW", "MODERATE", "HIGH", "EXTREME"}
        /\ (l = "LOW") <=> FLeq[s, FromInt[3]]
        /\ (l = "MODERATE") <=> (~FLeq[s, FromInt[3]] /\ FLeq[s, FromInt[5]])
        /\ (l = "HIGH") <=> (~FLeq[s, FromInt[5]] /\ FLeq[s, FromInt[7]])
        /\ (l = "EXTREME") <=> ~FLeq[s, FromInt[7]]

\* a score exactly on the boundary 5 classified MODERATE
C2_Witness ==
  Computed /\ overallRisk.score = FromInt[5] /\ overallRisk.level = "MODERATE"

\* C3: for sub-scores in [0,10] the weighted score lies in [0,10].
C3_ScoreInRange ==
  Computed => /\ FLeq[FZero, overallRisk.score]
              /\ FLeq[overallRisk.score, FromInt[ScoreScale]]

\* all four sub-scores at the top of the scale, score computed
C3_Witness == Computed /\ AllScores(ScoreScale) /\ ~IsZero(overallRisk.score)

TierRank(l) ==
  CASE l = "LOW" -> 0 [] l = "MODERATE" -> 1 [] l = "HIGH" -> 2
    [] l = "EXTREME" -> 3

Raised(c) ==
  calculateOverallRisk([riskFactors EXCEPT ![c].score = @ + 1]).overallRisk

\* C4: raising one sub-score with the other three fixed never lowers the
\* score and never moves the tier to a lower one.
C4_Monotone ==
  Computed =>
    \A c \in Categories :
      riskFactors[c].score < ScoreScale =>
        /\ FLeq[overallRisk.score, Raised(c).score]
        /\ TierRank(overallRisk.level) <= TierRank(Raised(c).level)

\* an input where raising the avalanche sub-score by one changes the tier
C4_Witness ==
  /\ Computed
  /\ riskFactors.avalanche.score < ScoreScale
  /\ overallRisk.level = "MODERATE"
  /\ Raised("avalanche").level = "HIGH"

\* C5: the percentage is round(score / 10 * 100), an integer in 0..100,
\* 0 when all sub-scores are 0 and 100 when all are 10.
C5_Percentage ==
  Computed =>
    /\ overallRisk.percentage
         = MathRound[FMulInt[FDivInt[overallRisk.score, 10], 100]]
    /\ overallRisk.percentage \in 0..100
    /\ AllScores(0) => overallRisk.percentage = 0
    /\ AllScores(ScoreScale) => overallRisk.percentage = 100

\* all four sub-scores 10 and the percentage 100
C5_Witness == Computed /\ AllScores(ScoreScale) /\ overallRisk.percentage = 100

\* one input of each tier
TierExample(l) ==
  CASE l = "LOW" -> calculateOverallRisk(WithScores(0, 0, 0, 0))
    [] l = "MODERATE" -> calculateOverallRisk(WithScores(4, 4, 4, 4))
    [] l = "HIGH" -> calculateOverallRisk(WithScores(6, 6, 6, 6))
    [] l = "EXTREME" -> calculateOverallRisk(WithScores(10, 10, 10, 10))

TierColor(l) ==
  CASE l = "LOW" -> "#10b981" [] l = "MODERATE" -> "#f59e0b"
    [] l = "HIGH" -> "#f97316" [] l = "EXTREME" -> "#dc2626"

TierAction(l) ==
  CASE l = "LOW" -> "GO" [] l = "MODERATE" -> "CAUTION"
    [] l = "HIGH" -> "RECONSIDER" [] l = "EXTREME" -> "CRITICAL RISK"

\* C7: color and recommendation are a function of the tier alone, with the
\* colours and action labels of the four tiers and four detail strings;
\* inputs of the same tier get the same color and recommendation.
C7_BundleByTier ==
  Computed =>
    LET l == overallRisk.level
    IN  /\ overallRisk.color = TierColor(l)
        /\ recommendation.action = TierAction(l)
        /\ Len(recommendation.details) = 4
        /\ TierExample(l).overallRisk.level = l
        /\ overallRisk.color = TierExample(l).overallRisk.color
        /\ recommendation = TierExample(l).recommendation

\* a HIGH result reached with the terrain sub-score dominating
C7_Witness ==
  /\ Computed
  /\ overallRisk.level = "HIGH"
  /\ recommendation.action = "RECONSIDER"
  /\ riskFactors.terrain.score = ScoreScale
  /\ riskFactors.avalanche.score < 5

\* C8: the weights sum to one, so equal sub-scores k give the score k.
C8_EqualScoresGiveK ==
  Computed => \A k \in 0..ScoreScale :
                AllScores(k) => overallRisk.score = FromInt[k]

\* C9 as stated: at every moment the overall risk is non-empty and is the
\* classification of the current factors, the seeded factors giving 6.05.
C9_AlwaysCurrent ==
  /\ overallRisk # EmptyObject
  /\ overallRisk = computeOverallRisk(riskFactors).overallRisk
  /\ recommendation = computeOverallRisk(riskFactors).recommendation
  /\ riskFactors = DefaultRiskFactors =>
       /\ overallRisk.score = Decimal[605, 100]
       /\ overallRisk.level = "HIGH"

\* C9 amended: once the effect scheduled by the last factor change (or by
\* the mount) has run, overall risk and recommendation are the
\* classification of the current factors; the seeded factors give 5.85, HIGH.
\* Before it has run they may be empty or belong to older factors.
C9_CurrentAfterEffect ==
  Computed =>
    /\ overallRisk = computeOverallRisk(riskFactors).overallRisk
    /\ recommendation = computeOverallRisk(riskFactors).recommendation
    /\ riskFactors = DefaultRiskFactors =>
         /\ overallRisk.score = Decimal[585, 100]
         /\ overallRisk.level = "HIGH"

\* two updates made and the effect of the second one run
C9_Witness ==
  /\ Computed
  /\ nUpdates = 2
  /\ ScoresOf(riskFactors) # ScoresOf(DefaultRiskFactors)
  /\ overallRisk.level = "LOW"

\* C10: only updateRiskFactor changes the risk factors; the effect running
\* calculateOverallRisk and the route selector leave them as they are.
C10_OnlyUpdateWrites ==
  [][/\ (riskFactors' # riskFactors) => Update
     /\ (RunEffect \/ SelectRoute) => riskFactors' = riskFactors]_vars

\* the effect has run and another route is selected, factors as seeded
C10_Witness ==
  /\ Computed
  /\ selectedRoute = "verbier-offpiste"
  /\ overallRisk # EmptyObject
  /\ riskFactors = DefaultRiskFactors

\* the factors with every descriptive field at its seeded value
SeededDescription(rf) == WithScores(rf.weather.score, rf.avalanche.score, rf.terrain.score, rf.group.score)

\* C11: two factor states that agree on the four score fields get the same
\* score, tier, color, percentage and recommendation whatever their
\* descriptive fields are (the current factors and the factors with the same
\* scores and the seeded descriptive values), so that after an update of a
\* descriptive field the overall risk is the one of the scores alone.
C11_DescriptiveFieldsIgnored ==
  Computed =>
    /\ computeOverallRisk(riskFactors)
         = computeOverallRisk(SeededDescription(riskFactors))
    /\ overallRisk = computeOverallRisk(SeededDescription(riskFactors)).overallRisk
    /\ recommendation
         = computeOverallRisk(SeededDescription(riskFactors)).recommendation

\* the avalanche danger level and the group size changed, scores as seeded,
\* and the effect run
C11_Witness ==
  /\ Computed
  /\ riskFactors.avalanche.level = 1
  /\ riskFactors.group.groupSize = 8
  /\ ScoresOf(riskFactors) = ScoresOf(DefaultRiskFactors)
  /\ overallRisk.level = "HIGH"

\* C12: sub-scores outside [0,10] are not rejected or clamped: the score is
\* the raw weighted sum and the tier comes from the same thresholds; all
\* sub-scores 11 give score 11, EXTREME and percentage 110, all sub-scores
\* -1 give score -1, LOW and percentage -10.
C12_RawSumOffScale ==
  Computed =>
    /\ overallRisk.score = Decimal[Hundredths(riskFactors), 100]
    /\ overallRisk.level = riskBranch(overallRisk.score).riskLevel
    /\ AllScores(ScoreScale + 1) =>
         /\ overallRisk.score = FromInt[ScoreScale + 1]
         /\ overallRisk.level = "EXTREME"
         /\ overallRisk.percentage = 110
    /\ AllScores(-1) =>
         /\ overallRisk.score = FromInt[-1]
         /\ overallRisk.level = "LOW"
         /\ overallRisk.percentage = -10

\* C14: the displayed tier and recommendation belong together: both are
\* empty, or the level and the action are one of the four pairs and the
\* color is the one of the level, in every state, also between and after
\* several recomputations.
C14_TierAndActionPaired ==
  \/ overallRisk = EmptyObject /\ recommendation = EmptyObject
  \/ /\ overallRisk # EmptyObject
     /\ recommendation # EmptyObject
     /\ <<overallRisk.level, recommendation.action>>
          \in {<<"LOW", "GO">>, <<"MODERATE", "CAUTION">>,
               <<"HIGH", "RECONSIDER">>, <<"EXTREME", "CRITICAL RISK">>}
     /\ overallRisk.color = TierColor(overallRisk.level)

\* two updates after the first computation have moved the seeded HIGH
\* result to EXTREME, and the effect has run
C14_Witness ==
  /\ Computed
  /\ nUpdates = 2
  /\ riskFactors.avalanche.score = ScoreScale
  /\ riskFactors.weather.score = ScoreScale
  /\ overallRisk.level = "EXTREME"
  /\ recommendation.action = "CRITICAL RISK"

\* the calls of sendMessage that have returned
Done == {i \in 1..Len(requests) : requests[i].stage = "done"}

\* C13: sendMessage always resolves; after a network error, an abort by the
\* timer or a response that is not OK it resolves to a fallback response
\* with a non-empty message, modelUsed 'fallback', confidence 0.3, no
\* sources and isTemporary true; a formatted backend answer comes from an
\* OK response only.
C13_FallbackWhenUnavailable ==
  \A i \in Done :
    /\ requests[i].result # Null
    /\ requests[i].outcome \in {"network error", "timeout", "not ok"} =>
         /\ Len(requests[i].result.message) > 0
         /\ requests[i].result.modelUsed = "fallback"
         /\ requests[i].result.confidence = Decimal[3, 10]
         /\ requests[i].result.sources = <<>>
         /\ "isTemporary" \in DOMAIN requests[i].result
         /\ requests[i].result.isTemporary = TRUE
    /\ (\E data \in Answers : requests[i].result.message = data.message) =>
         requests[i].outcome = "ok"
    /\ requests[i].outcome = "ok" =>
         /\ \E data \in Answers : requests[i].result = formatResponse(data)
         /\ "isTemporary" \notin DOMAIN requests[i].result

\* one call answered 502 by the proxy and one answered by the backend
C13_Witness ==
  \E i \in Done, j \in Done :
    /\ requests[i].outcome = "not ok"
    /\ requests[i].result.modelUsed = "fallback"
    /\ requests[j].outcome = "ok"
    /\ requests[j].result.modelUsed = "apertus-8b"

\* s is an initial part of t
IsPrefix(s, t) == Len(s) <= Len(t) /\ SubSeq(t, 1, Len(s)) = s

\* the calls made by handleSendMessage that have not returned
PendingChat ==
  {i \in 1..Len(requests) :
     requests[i].caller = "handleSendMessage" /\ requests[i].stage # "done"}

\* the messages of one type in the list, the welcome message left out
Shown(type) ==
  {k \in 1..Len(messages) :
     messages[k].type = type /\ messages[k] # welcomeMessage}

\* C15: handleSendMessage does nothing for a blank message; for any other
\* message the user message is appended first and in the end exactly one bot
\* message is appended after it, with isTyping false afterwards; the list of
\* messages only grows, no message is removed or reordered.
C15_SendAppendsAndAnswers ==
  /\ [][/\ IsPrefix(messages, messages')
        /\ (PressEnter /\ trim(inputMessage) = "") =>
             UNCHANGED <<messages, requests, isTyping>>
        /\ Len(requests') > Len(requests) =>
             messages' = Append(messages, userMessage(requests'[Len(requests')].message))
        /\ (\E i \in PendingChat : i \notin PendingChat') =>
             /\ Len(messages') = Len(messages) + 1
             /\ messages'[Len(messages')].type = "bot"
             /\ ~isTyping']_vars
  /\ [](Cardinality(Shown("user")) = Len(requests))
  /\ [](Cardinality(Shown("bot")) = Cardinality(Done))
  /\ \A i \in 1..MaxRequests :
       [](i <= Len(requests) => <>(i \in Done /\ ~isTyping))

\* C16: isTyping is false only when no sendMessage call is pending, and no
\* call is started while one is pending, by the send button, the Enter key
\* or a scenario button.
C16_TypingCoversRequests ==
  /\ [](~isTyping => PendingChat = {})
  /\ [][Len(requests') > Len(requests) => PendingChat = {}]_vars

\* the keyword groups in the order of their priority
KeywordGroups ==
  <<[type |-> "emergency",
     words |-> {"emergency", "help", "stuck", "numbers", "contact", "rescue",
                "call", "1414", "112"}],
    [type |-> "weather", words |-> {"weather", "forecast"}],
    [type |-> "route", words |-> {"route", "trail", "hike"}],
    [type |-> "avalanche", words |-> {"avalanche", "snow"}],
    [type |-> "equipment", words |-> {"equipment", "gear"}]>>

\* the character c is the letter k in lower or upper case (k itself when k
\* is no letter)
SameLetter(c, k) ==
  \/ c = k
  \/ \E n \in 1..Len(LowerCaseLetters) :
       SubSeq(LowerCaseLetters, n, n) = k /\ SubSeq(UpperCaseLetters, n, n) = c

\* text contains word in any mix of cases
Mentions(text, word) ==
  \E i \in 0..(Len(text) - Len(word)) :
    \A k \in 1..Len(word) :
      SameLetter(SubSeq(text, i + k, i + k), SubSeq(word, k, k))

\* the groups of which text mentions a keyword
GroupsIn(text) ==
  {g \in 1..Len(KeywordGroups) :
     \E word \in KeywordGroups[g].words : Mentions(text, word)}

\* the group of the highest priority mentioned in text
ClaimedType(text) ==
  IF GroupsIn(text) = {} THEN "default"
  ELSE KeywordGroups[CHOOSE g \in GroupsIn(text) :
                       \A h \in GroupsIn(text) : g <= h].type

\* C17: the fallback text is the one of the first keyword group, in the
\* order emergency, weather, route, avalanche, equipment, of which the
\* message contains a keyword in any case, and the default text when it
\* contains none.
C17_FallbackByPriority ==
  \A i \in Done :
    requests[i].outcome # "ok" =>
      requests[i].result.message
        = fallbackResponses[ClaimedType(requests[i].message)]

\* a message naming the avalanche group before the route group in upper
\* and mixed case was answered with the route text
C17_Witness ==
  \E i \in Done :
    /\ requests[i].message = "AVALANCHE Trail"
    /\ requests[i].outcome = "timeout"
    /\ requests[i].result.message = fallbackResponses.route

\* the value under the session key, if there is one
Stored ==
  IF SessionKey \in DOMAIN sessionStorage
  THEN [value |-> sessionStorage[SessionKey]] ELSE Null

\* C18: getSessionId, called directly or by sendMessage, returns the id
\* stored under 'alpine_rag_session', which stays the same from call to call
\* until clearSession; clearSession leaves no stored id, and the next
\* getSessionId creates an id and stores it.
C18_SessionContinuity ==
  [][/\ (CallGetSessionId \/ CallSendMessage) =>
          /\ returned' # Null
          /\ returned' = Stored'
          /\ Stored # Null => Stored' = Stored
     /\ CallSendMessage =>
          requests'[Len(requests')].session_id = returned'.value
     /\ clearSession => Stored' = Null
     /\ ~(CallGetSessionId \/ CallSendMessage \/ clearSession) =>
          Stored' = Stored]_vars

\* after a first call with one id the session has been cleared and a
\* created id is stored and returned
C18_Witness ==
  /\ Len(requests) = 2
  /\ requests[1].session_id # requests[2].session_id
  /\ Stored = [value |-> requests[2].session_id]
  /\ returned = Stored

\* the status changes that the control buttons allow
ButtonChanges ==
  {<<"stopped", "tracking">>, <<"tracking", "paused">>,
   <<"paused", "tracking">>, <<"tracking", "stopped">>,
   <<"paused", "stopped">>}

\* C19: the status is always stopped, tracking or paused and is stopped
\* while nothing has been started; Start / Resume is offered exactly in
\* stopped and paused and leads to tracking, Pause exactly in tracking and
\* leads to paused, Stop exactly in tracking and paused and leads to
\* stopped; the status changes only by these clicks, and no interval
\* callback changes it, also not the one that brings the progress to 100.
C19_StatusMachine ==
  /\ [](trackingStatus \in {"stopped", "tracking", "paused"})
  /\ [](currentPosition = Null => trackingStatus = "stopped")
  /\ []((ENABLED startTracking) <=> trackingStatus \in {"stopped", "paused"})
  /\ []((ENABLED pauseTracking) <=> trackingStatus = "tracking")
  /\ []((ENABLED stopTracking) <=> trackingStatus \in {"tracking", "paused"})
  /\ [][/\ startTracking => trackingStatus' = "tracking"
        /\ pauseTracking => trackingStatus' = "paused"
        /\ stopTracking => trackingStatus' = "stopped"
        /\ trackingStatus' # trackingStatus =>
             /\ <<trackingStatus, trackingStatus'>> \in ButtonChanges
             /\ startTracking \/ pauseTracking \/ stopTracking
        /\ nTicks' # nTicks => trackingStatus' = trackingStatus]_vars

\* the callback that brought the progress to 100 has run and the status is
\* still tracking
C19_Witness ==
  /\ trackingStatus = "tracking"
  /\ nTicks > 0
  /\ routeProgress = FromInt[100]

\* x - y as the engine computes it
Minus(x, y) == FAdd[x, [y EXCEPT !.neg = ~@]]

Half == Decimal[1, 2]

\* routeProgress lies in [0, 100]
ProgressInRange ==
  /\ FLeq[FZero, routeProgress]
  /\ FLeq[routeProgress, FromInt[100]]

\* routeProgress or elapsedTime grows in the step
Advances ==
  \/ FCmp[routeProgress', routeProgress] > 0
  \/ elapsedTime' > elapsedTime

\* the step is a callback of the interval
Ticked == nTicks' # nTicks

TrackerReset ==
  /\ IsZero(routeProgress)
  /\ elapsedTime = 0
  /\ currentPosition = Null
  /\ weatherAlerts = <<>>

WaypointOf(key, position, progress) ==
  \E i \in 0..3 :
    /\ i = MathFloor[FMulInt[FDivInt[progress, 100], 3]]
    /\ position.name = trackerRoutes[key].waypoints[i + 1].name
    /\ position.elevation = trackerRoutes[key].waypoints[i + 1].elevation
    /\ position.distance = trackerRoutes[key].waypoints[i + 1].distance

\* C22: a currentPosition that is not null is the waypoint of the selected
\* route with index floor(routeProgress / 100 * 3), an index in 0..3, also
\* after another route has been selected while tracking or paused.
C22_PositionOnSelectedRoute ==
  currentPosition # Null =>
    WaypointOf(trackerSelectedRoute, currentPosition, routeProgress)

\* C23: window.open is called with tel:<number> only in a handleCall that
\* the user confirmed for the contact of that number, and callingNumber is
\* that number then; a cancelled handleCall opens nothing, sets no timeout
\* and leaves callingNumber null; while a number is being called a timeout
\* is pending, and callingNumber returns to null in the end.
C23_DialOnlyOnConfirm ==
  /\ [](callingNumber # Null => timeouts > 0)
  /\ [][/\ opened' # opened =>
             \E k \in 1..Len(emergencyContacts) :
               /\ handleCall(emergencyContacts[k], TRUE)
               /\ opened' = Append(opened, "tel:" \o emergencyContacts[k].number)
               /\ callingNumber' = [value |-> emergencyContacts[k].number]
        /\ \A k \in 1..Len(emergencyContacts) :
             handleCall(emergencyContacts[k], FALSE) =>
               /\ UNCHANGED <<opened, timeouts>>
               /\ callingNumber' = Null]_vars
  /\ [](callingNumber # Null => <>(callingNumber = Null))

\* REGA was dialed after a confirmation and the timeout has run
C23_Witness ==
  /\ opened = <<"tel:1414">>
  /\ callingNumber = Null
  /\ timeouts = 0

====
